---- MODULE Spec2Model ----
(***************************************************************************)
(* Model of the power poller (src/commands/poll.py): the value converter,  *)
(* the configuration loader, the Closer-wrapped Poll run with its signal   *)
(* handler and self-pipe, and the per-cycle ProcessDevices.                *)
(*                                                                         *)
(* Text is a sequence of one-character strings, so that strip, split,      *)
(* lower, replace and the numeric parsers are computed, not assumed.       *)
(* Python values are records tagged by k:                                  *)
(*   [k |-> "str", s |-> text]   [k |-> "int", n |-> Int]                  *)
(*   [k |-> "float", sp |-> "fin"|"inf"|"nan", m |-> Int, e |-> Nat]       *)
(*        (a finite float is m / 10^e, without trailing zeros)             *)
(*   [k |-> "bool", b |-> BOOLEAN]   [k |-> "none"]                        *)
(* and a raised exception is [k |-> "raise", exc |-> name].                *)
(***************************************************************************)
EXTENDS Integers, Sequences, FiniteSets, TLC

(***************************************************************************)
(* Text helpers: what str.strip, str.lower, str.split, str.replace and the *)
(* "in" operator do on the texts the model uses.                           *)
(***************************************************************************)
DigitChars == <<"0", "1", "2", "3", "4", "5", "6", "7", "8", "9">>

UpperChars == <<"A", "B", "C", "D", "E", "F", "G", "H", "I", "J", "K", "L", "M",
                "N", "O", "P", "Q", "R", "S", "T", "U", "V", "W", "X", "Y", "Z">>

LowerChars == <<"a", "b", "c", "d", "e", "f", "g", "h", "i", "j", "k", "l", "m",
                "n", "o", "p", "q", "r", "s", "t", "u", "v", "w", "x", "y", "z">>

Range(f) == {f[i] : i \in DOMAIN f}

IsDigit(c) == c \in Range(DigitChars)

DigitValue(c) == (CHOOSE i \in DOMAIN DigitChars : DigitChars[i] = c) - 1

IsSpace(c) == c \in {" ", "\t", "\n"}

LowerChar(c) ==
    IF c \in Range(UpperChars)
    THEN LowerChars[CHOOSE i \in DOMAIN UpperChars : UpperChars[i] = c]
    ELSE c

Lower(s) == [i \in DOMAIN s |-> LowerChar(s[i])]

Contains(s, c) == \E i \in DOMAIN s : s[i] = c

RECURSIVE LStrip(_)
LStrip(s) == IF s # <<>> /\ IsSpace(Head(s)) THEN LStrip(Tail(s)) ELSE s

RECURSIVE RStrip(_)
RStrip(s) ==
    IF s # <<>> /\ IsSpace(s[Len(s)]) THEN RStrip(SubSeq(s, 1, Len(s) - 1)) ELSE s

Strip(s) == RStrip(LStrip(s))

\* str.replace(old, new) for one-character old and new
Replace(s, old, new) == [i \in DOMAIN s |-> IF s[i] = old THEN new ELSE s[i]]

\* str.split(sep) for a one-character separator: empty parts are kept
RECURSIVE SplitOn(_, _)
SplitOn(s, sep) ==
    IF ~Contains(s, sep) THEN <<s>>
    ELSE LET i == CHOOSE j \in DOMAIN s :
                      s[j] = sep /\ \A h \in 1..(j - 1) : s[h] # sep
         IN  <<SubSeq(s, 1, i - 1)>> \o SplitOn(SubSeq(s, i + 1, Len(s)), sep)

\* str.split() without a separator: runs of whitespace separate, no empty parts
RECURSIVE SplitWs(_)
SplitWs(s) ==
    LET t == LStrip(s) IN
    IF t = <<>> THEN <<>>
    ELSE IF \A j \in DOMAIN t : ~IsSpace(t[j]) THEN <<t>>
    ELSE LET i == CHOOSE j \in DOMAIN t :
                      IsSpace(t[j]) /\ \A h \in 1..(j - 1) : ~IsSpace(t[h])
         IN  <<SubSeq(t, 1, i - 1)>> \o SplitWs(SubSeq(t, i + 1, Len(t)))

IsDigits(s) == s # <<>> /\ \A i \in DOMAIN s : IsDigit(s[i])

RECURSIVE DigitsValue(_)
DigitsValue(s) ==
    IF s = <<>> THEN 0
    ELSE 10 * DigitsValue(SubSeq(s, 1, Len(s) - 1)) + DigitValue(s[Len(s)])

RECURSIVE Pow10(_)
Pow10(e) == IF e = 0 THEN 1 ELSE 10 * Pow10(e - 1)

(***************************************************************************)
(* Python values and the built-in conversions float() and int().  The     *)
(* numeric grammar covers an optional sign, digits, one decimal point and  *)
(* the words inf, infinity and nan; the texts of the model use no exponent *)
(* and no digit-group underscore.                                          *)
(***************************************************************************)
PyStr(s) == [k |-> "str", s |-> s]
PyInt(n) == [k |-> "int", n |-> n]
PyBool(b) == [k |-> "bool", b |-> b]
PyNone == [k |-> "none"]
Raise(exc) == [k |-> "raise", exc |-> exc]

RECURSIVE Normal(_, _)
Normal(m, e) ==
    IF e > 0 /\ m % 10 = 0 THEN Normal(m \div 10, e - 1)
    ELSE [k |-> "float", sp |-> "fin", m |-> m, e |-> e]

PyFloat(m, e) == Normal(m, e)
PyInf(sign) == [k |-> "float", sp |-> "inf", m |-> sign, e |-> 0]
PyNan == [k |-> "float", sp |-> "nan", m |-> 0, e |-> 0]

IsRaise(v) == v.k = "raise"

Signed(s) == s # <<>> /\ Head(s) \in {"+", "-"}
SignOf(s) == IF s # <<>> /\ Head(s) = "-" THEN -1 ELSE 1
Unsigned(s) == IF Signed(s) THEN Tail(s) ELSE s

\* float(text)
ParseFloat(text) ==
    LET t    == Strip(text)
        sign == SignOf(t)
        body == Unsigned(t)
        low  == Lower(body)
        part == SplitOn(body, ".")
    IN  IF low \in {<<"i", "n", "f">>, <<"i", "n", "f", "i", "n", "i", "t", "y">>}
            THEN PyInf(sign)
        ELSE IF low = <<"n", "a", "n">> THEN PyNan
        ELSE IF IsDigits(body) THEN PyFloat(sign * DigitsValue(body), 0)
        ELSE IF /\ Len(part) = 2
                /\ part[1] \o part[2] # <<>>
                /\ \A i \in 1..2 : part[i] = <<>> \/ IsDigits(part[i])
            THEN PyFloat(sign * DigitsValue(part[1] \o part[2]), Len(part[2]))
        ELSE Raise("ValueError")

\* int(text)
ParseInt(text) ==
    LET t    == Strip(text)
        body == Unsigned(t)
    IN  IF IsDigits(body) THEN PyInt(SignOf(t) * DigitsValue(body))
        ELSE Raise("ValueError")

\* float(value)
ToFloat(value) ==
    CASE value.k = "str"   -> ParseFloat(value.s)
      [] value.k = "int"   -> PyFloat(value.n, 0)
      [] value.k = "float" -> value
      [] value.k = "bool"  -> PyFloat(IF value.b THEN 1 ELSE 0, 0)
      [] value.k = "none"  -> Raise("TypeError")
      [] OTHER             -> value

\* truncation toward zero of m / 10^e
Trunc(m, e) == IF m >= 0 THEN m \div Pow10(e) ELSE -((-m) \div Pow10(e))

\* int(value)
ToInt(value) ==
    CASE value.k = "str"   -> ParseInt(value.s)
      [] value.k = "int"   -> value
      [] value.k = "float" ->
            IF value.sp = "inf" THEN Raise("OverflowError")
            ELSE IF value.sp = "nan" THEN Raise("ValueError")
            ELSE PyInt(Trunc(value.m, value.e))
      [] value.k = "bool"  -> PyInt(IF value.b THEN 1 ELSE 0)
      [] value.k = "none"  -> Raise("TypeError")
      [] OTHER             -> value

(***************************************************************************)
(* ConvertBoolean and ConvertValue.  A hint is a text or None.             *)
(***************************************************************************)
None == <<"None">>

HintInt == <<"i", "n", "t">>
HintFloat == <<"f", "l", "o", "a", "t">>
HintString == <<"s", "t", "r", "i", "n", "g">>

ConvertBoolean(value) ==
    IF value.k # "str" THEN Raise("AttributeError")
    ELSE IF Lower(value.s) \in {<<"y", "e", "s">>, <<"1">>, <<"t", "r", "u", "e">>}
        THEN PyBool(TRUE)
    ELSE IF Lower(value.s) \in {<<"n", "o">>, <<"0">>, <<"f", "a", "l", "s", "e">>}
        THEN PyBool(FALSE)
    ELSE PyNone

\* the except clause of ConvertValue: TypeError and ValueError only
Caught(r) == IsRaise(r) /\ r.exc \in {"TypeError", "ValueError"}

ConvertValue(raw, hint) ==
    LET value  == IF raw.k = "str" THEN PyStr(Strip(raw.s)) ELSE raw
        dotted == value.k = "str" /\ Contains(value.s, ".")
        hinted ==
            IF hint = HintInt
                THEN IF dotted
                     THEN LET f == ToFloat(value) IN IF IsRaise(f) THEN f ELSE ToInt(f)
                     ELSE ToInt(value)
            ELSE IF hint = HintFloat THEN ToFloat(value)
            ELSE IF hint = HintString THEN value
            ELSE Raise("ConversionFailure")
        v      == ToFloat(value)
        guess  == IF IsRaise(v) THEN v ELSE IF dotted THEN v ELSE ToInt(v)
        bool   == ConvertBoolean(value)
    IN  IF hint # None
        THEN IF Caught(hinted) THEN Raise("ConversionFailure") ELSE hinted
        ELSE IF Caught(guess)
             THEN IF IsRaise(bool) THEN bool
                  ELSE IF bool = PyNone THEN value ELSE bool
             ELSE guess

(***************************************************************************)
(* LoadConfiguration.  A parsed file is a function from section names      *)
(* (texts) to functions from option names to texts, as ConfigParser holds  *)
(* it.  The result is the config dictionary or the exception raised.       *)
(***************************************************************************)
HasSection(parser, section) == section \in DOMAIN parser

HasOption(parser, section, option) ==
    HasSection(parser, section) /\ option \in DOMAIN parser[section]

Get(parser, section, option) == parser[section][option]

ConfigError(check, device, option, item) ==
    [k |-> "raise", exc |-> "ConfigError", check |-> check, device |-> device,
     option |-> option, item |-> item]

\* dict assignment d[key] = val
Put(d, key, val) == [x \in DOMAIN d \cup {key} |-> IF x = key THEN val ELSE d[x]]

EmptyDict == [x \in {} |-> x]

\* a dictionary as the result of a step that may raise instead
Dict(d) == [k |-> "dict", d |-> d]

Influx == <<"i", "n", "f", "l", "u", "x">>

influxRequiredFields == <<"database", "devices", "server">>

allowedInfluxFields == <<"database", "port", "server", "ssl", "verify">>

deviceRequiredFields == <<"address", "deviceId", "fields", "tags">>

\* tplink.utils.IsValidIPv4: four dot-separated octets 0..255, nothing else
IsValidIPv4(address) ==
    LET parts == SplitOn(address, ".") IN
    /\ Len(parts) = 4
    /\ \A i \in 1..4 : IsDigits(parts[i]) /\ DigitsValue(parts[i]) <= 255

LastMissing(parser, section, required) ==
    IF \A i \in DOMAIN required : HasOption(parser, section, required[i]) THEN 0
    ELSE CHOOSE i \in DOMAIN required :
            /\ ~HasOption(parser, section, required[i])
            /\ \A h \in (i + 1)..Len(required) : HasOption(parser, section, required[h])

\* the first required option, in list order, that the section lacks (0: none)
FirstMissing(parser, section, required) ==
    IF \A i \in DOMAIN required : HasOption(parser, section, required[i]) THEN 0
    ELSE CHOOSE i \in DOMAIN required :
            /\ ~HasOption(parser, section, required[i])
            /\ \A h \in 1..(i - 1) : HasOption(parser, section, required[h])

\* the one element of a one-element set: Only({e(x) : x \in {v}}) is e(v) with v
\* evaluated once
Only(S) == CHOOSE x \in S : TRUE

\* lines 120-123: the allowed options present, each through ConvertValue
RECURSIVE CopyInflux(_, _, _)
CopyInflux(parser, i, influx) ==
    IF i > Len(allowedInfluxFields) THEN Dict(influx)
    ELSE IF ~HasOption(parser, Influx, allowedInfluxFields[i])
        THEN CopyInflux(parser, i + 1, influx)
    ELSE Only({IF IsRaise(v) THEN v
               ELSE CopyInflux(parser, i + 1, Put(influx, allowedInfluxFields[i], v)) :
               v \in {ConvertValue(PyStr(Get(parser, Influx, allowedInfluxFields[i])),
                                   None)}})

\* lines 154-159
RECURSIVE LoadTags(_, _, _)
LoadTags(tokens, tags, value) ==
    IF tokens = <<>> THEN Dict(tags)
    ELSE LET kv == SplitOn(Head(tokens), "=") IN
         IF Len(kv) # 2 THEN ConfigError("tag", value, "tags", Head(tokens))
         ELSE LoadTags(Tail(tokens), Put(tags, kv[1], Strip(kv[2])), value)

SetFieldFirst(fields, name, type) ==
    IF name \in DOMAIN fields THEN fields ELSE Put(fields, name, type)

\* line 177: config['devices'][value]['fields'][name] = _type
SetField(fields, name, type) == Put(fields, name, type)

\* lines 169-177
RECURSIVE LoadNames(_, _, _)
LoadNames(tokens, fields, value) ==
    IF tokens = <<>> THEN Dict(fields)
    ELSE LET parts == SplitOn(Head(tokens), ":")
             name  == IF Len(parts) = 2 THEN parts[1] ELSE Head(tokens)
             type  == IF Len(parts) = 2 THEN parts[2] ELSE None
         IN  IF type \notin {None, HintInt, HintFloat, HintString}
             THEN ConfigError("type", value, "fields", name)
             ELSE LoadNames(Tail(tokens), SetField(fields, name, type), value)

\* lines 161-177
RECURSIVE LoadFieldSets(_, _, _, _)
LoadFieldSets(parser, sets, fields, value) ==
    IF sets = <<>> THEN Dict(fields)
    ELSE IF ~HasSection(parser, Head(sets))
        THEN ConfigError("fieldset", value, "fields", Head(sets))
    ELSE IF ~HasOption(parser, Head(sets), "fields")
        THEN ConfigError("malformed", value, "fields", Head(sets))
    ELSE IF Len(Get(parser, Head(sets), "fields")) = 0
        THEN ConfigError("nofields", value, "fields", Head(sets))
    ELSE Only({IF IsRaise(got) THEN got
               ELSE LoadFieldSets(parser, Tail(sets), got.d, value) :
               got \in {LoadNames(SplitWs(Get(parser, Head(sets), "fields")), fields,
                                  value)}})

\* lines 139-177 for a device whose section has the required options
LoadSection(parser, value) ==
    IF ~IsValidIPv4(Get(parser, value, "address"))
    THEN ConfigError("address", value, "address", Get(parser, value, "address"))
    ELSE Only({IF IsRaise(tags) THEN tags
               ELSE Only({IF IsRaise(fields) THEN fields
                          ELSE [k |-> "device",
                                address |-> Get(parser, value, "address"),
                                deviceId |-> Get(parser, value, "deviceId"),
                                tags |-> tags.d, fields |-> fields.d] :
                          fields \in {LoadFieldSets(parser,
                                          SplitWs(Get(parser, value, "fields")),
                                          EmptyDict, value)}}) :
               tags \in {LoadTags(SplitWs(Get(parser, value, "tags")), EmptyDict,
                                  value)}})

\* lines 132-177 for one device name
LoadDevice(parser, value) ==
    IF ~HasSection(parser, value) THEN ConfigError("nosection", value, "", <<>>)
    ELSE IF FirstMissing(parser, value, deviceRequiredFields) # 0
        THEN ConfigError("required", value,
                deviceRequiredFields[FirstMissing(parser, value, deviceRequiredFields)],
                <<>>)
    ELSE LoadSection(parser, value)

RECURSIVE LoadDeviceListLenient(_, _, _, _)
LoadDeviceListLenient(parser, names, devices, order) ==
    IF names = <<>> THEN [k |-> "devices", devices |-> devices, order |-> order]
    ELSE IF ~HasSection(parser, Head(names))
        THEN LoadDeviceListLenient(parser, Tail(names), devices, order)
    ELSE Only({IF IsRaise(dev) THEN dev
               ELSE LoadDeviceListLenient(parser, Tail(names),
                                          Put(devices, Head(names), dev),
                                          IF Head(names) \in DOMAIN devices THEN order
                                          ELSE Append(order, Head(names))) :
               dev \in {LoadDevice(parser, Head(names))}})

\* lines 131-177: config['devices'], with the order in which its keys were inserted
RECURSIVE LoadDeviceList(_, _, _, _)
LoadDeviceList(parser, names, devices, order) ==
    IF names = <<>> THEN [k |-> "devices", devices |-> devices, order |-> order]
    ELSE Only({IF IsRaise(dev) THEN dev
               ELSE LoadDeviceList(parser, Tail(names), Put(devices, Head(names), dev),
                                   IF Head(names) \in DOMAIN devices THEN order
                                   ELSE Append(order, Head(names))) :
               dev \in {LoadDevice(parser, Head(names))}})

\* lines 125-178, after the options of [influx] were copied
LoadListed(parser, influx, names) ==
    IF Len(names) = 0 THEN ConfigError("nodevices", <<>>, "devices", <<>>)
    ELSE Only({IF IsRaise(loaded) THEN loaded
               ELSE [k |-> "config", influx |-> influx, names |-> names,
                     devices |-> loaded.devices, order |-> loaded.order] :
               loaded \in {LoadDeviceList(parser, names, EmptyDict, <<>>)}})

LoadConfiguration(parser) ==
    IF ~HasSection(parser, Influx) THEN ConfigError("nobackend", <<>>, "", <<>>)
    ELSE IF FirstMissing(parser, Influx, influxRequiredFields) # 0
        THEN ConfigError("required", Influx,
                influxRequiredFields[FirstMissing(parser, Influx, influxRequiredFields)],
                <<>>)
    ELSE Only({IF IsRaise(influx) THEN influx
               ELSE LoadListed(parser, influx.d, SplitWs(Get(parser, Influx, "devices"))) :
               influx \in {CopyInflux(parser, 1, EmptyDict)}})

(***************************************************************************)
(* The inputs of a run: the texts of the configuration files, the          *)
(* snapshots a device may answer with, and the arguments of Poll.          *)
(***************************************************************************)
ErrCode == <<"e", "r", "r", "_", "c", "o", "d", "e">>
Power == <<"p", "w", "r">>
Current == <<"c", "u", "r">>
Voltage == <<"v", ".", "m", "v">>

DevA == <<"a">>
DevB == <<"b">>
DevC == <<"c">>
DevZ == <<"z">>
FieldSet == <<"s">>

AddrA == <<"1", "0", ".", "0", ".", "0", ".", "1">>
AddrB == <<"1", "0", ".", "0", ".", "0", ".", "2">>
AddrC == <<"1", "0", ".", "0", ".", "0", ".", "3">>
AddrX == <<"1", "0", ".", "0", ".", "0", ".", "9">>

Section(address, tag) ==
    [o \in {"address", "deviceId", "fields", "tags"} |->
        CASE o = "address"  -> address
          [] o = "deviceId" -> <<"7">>
          [] o = "fields"   -> FieldSet
          [] o = "tags"     -> <<"n", "=">> \o tag]

\* [s] fields = pwr:int cur v.mv:float
FieldSection ==
    [o \in {"fields"} |-> Power \o <<":">> \o HintInt \o <<" ">> \o Current
                          \o <<" ">> \o Voltage \o <<":">> \o HintFloat]

InfluxSection(names, options) ==
    [o \in options |->
        CASE o = "database" -> <<"d", "b">>
          [] o = "devices"  -> names
          [] o = "server"   -> <<"h">>
          [] o = "port"     -> <<"8", "0", "8", "6">>
          [] o = "ssl"      -> <<"n", "o">>
          [] o = "verify"   -> <<"y", "e", "s">>]

AllOptions == {"database", "devices", "server", "port", "ssl", "verify"}

Sections(names, options) ==
    [x \in {Influx, DevA, DevB, DevC, FieldSet} |->
        CASE x = Influx   -> InfluxSection(names, options)
          [] x = DevA     -> Section(AddrA, DevA)
          [] x = DevB     -> Section(AddrB, DevB)
          [] x = DevC     -> Section(AddrC, DevC)
          [] x = FieldSet -> FieldSection]

\* devices = a b c
ParserThree == Sections(DevA \o <<" ">> \o DevB \o <<" ">> \o DevC, AllOptions)
\* devices = a
ParserOne == Sections(DevA, AllOptions)
\* devices = a z, and no section [z]
ParserBad == Sections(DevA \o <<" ">> \o DevZ, AllOptions)
\* devices = a b, and only the three required options of [influx]
ParserBare == Sections(DevA \o <<" ">> \o DevB, {"database", "devices", "server"})

NoFile == [exists |-> FALSE, parser |-> EmptyDict]
File(parser) == [exists |-> TRUE, parser |-> parser]

ConfigFiles == {NoFile, File(ParserThree), File(ParserOne), File(ParserBad),
                File(ParserBare)}

(***************************************************************************)
(* Configuration files with structural errors, one choice per part of the  *)
(* file: the [influx] section, the device list, the sections [a] and [b],  *)
(* and the field sets [a] refers to.                                       *)
(***************************************************************************)
SetT == <<"t">>
SetU == <<"u">>
SetW == <<"w">>
SetE == <<"e">>
SetM == <<"m">>
SetQ == <<"q">>

AddrBad == <<"1", "0", ".", "0", ".", "0", ".", "2", "5", "6">>
TextInf == <<"i", "n", "f">>
TextNan == <<"n", "a", "n">>

\* [t] fields = pwr:float cur:string
FieldsT == Power \o <<":">> \o HintFloat \o <<" ">> \o Current \o <<":">> \o HintString
\* [u] fields = pwr:int cur pwr:string
FieldsU == Power \o <<":">> \o HintInt \o <<" ">> \o Current \o <<" ">> \o Power
           \o <<":">> \o HintString
\* [w] fields = cur pwr:bool
FieldsW == Current \o <<" ">> \o Power \o <<":", "b", "o", "o", "l">>

BackendCases == {"ok", "none", "nodb", "nosrv", "nodbsrv", "nolist", "empty", "inf", "nan",
                 "bare"}
ListCases == {DevA, DevA \o <<" ">> \o DevB, DevB \o <<" ">> \o DevA,
              DevA \o <<" ">> \o DevZ, DevZ \o <<" ">> \o DevA}
SectionCases == {"ok", "noaddr", "noaddrtags", "badaddr", "badtag"}
FieldCases == {FieldSet, FieldSet \o <<" ">> \o SetT, SetT \o <<" ">> \o FieldSet, SetU,
               SetW, SetE, SetM, FieldSet \o <<" ">> \o SetQ}

Cases == [backend : BackendCases, list : ListCases, a : SectionCases,
          b : {"ok", "badaddr", "badtag"}, fields : FieldCases]

CaseInflux(c) ==
    LET options == CASE c.backend = "nodb"    -> AllOptions \ {"database"}
                     [] c.backend = "nosrv"   -> AllOptions \ {"server"}
                     [] c.backend = "nodbsrv" -> AllOptions \ {"database", "server"}
                     [] c.backend = "nolist"  -> AllOptions \ {"devices"}
                     [] c.backend = "bare"    -> {"database", "devices", "server"}
                     [] OTHER                 -> AllOptions
        names   == IF c.backend = "empty" THEN <<>> ELSE c.list
    IN  [o \in options |-> IF o = "port" /\ c.backend = "inf" THEN TextInf
                           ELSE IF o = "port" /\ c.backend = "nan" THEN TextNan
                           ELSE InfluxSection(names, options)[o]]

CaseSection(address, name, fields, how) ==
    LET options == CASE how = "noaddr"     -> {"deviceId", "fields", "tags"}
                     [] how = "noaddrtags" -> {"deviceId", "fields"}
                     [] OTHER              -> {"address", "deviceId", "fields", "tags"}
    IN  [o \in options |->
            CASE o = "address" -> IF how = "badaddr" THEN AddrBad ELSE address
              [] o = "fields"  -> fields
              [] o = "tags"    -> IF how = "badtag" THEN name
                                  ELSE Section(address, name)[o]
              [] OTHER         -> Section(address, name)[o]]

\* the file of a case; [m] has an option, but not the option fields
CaseParser(c) ==
    [x \in (IF c.backend = "none" THEN {} ELSE {Influx})
           \cup {DevA, DevB, FieldSet, SetT, SetU, SetW, SetE, SetM} |->
        CASE x = Influx   -> CaseInflux(c)
          [] x = DevA     -> CaseSection(AddrA, DevA, c.fields, c.a)
          [] x = DevB     -> CaseSection(AddrB, DevB, FieldSet, c.b)
          [] x = FieldSet -> FieldSection
          [] x = SetT     -> [o \in {"fields"} |-> FieldsT]
          [] x = SetU     -> [o \in {"fields"} |-> FieldsU]
          [] x = SetW     -> [o \in {"fields"} |-> FieldsW]
          [] x = SetE     -> [o \in {"fields"} |-> <<>>]
          [] x = SetM     -> [o \in {"names"} |-> FieldsT]]

CaseFiles == {File(CaseParser(c)) : c \in Cases}

\* a snapshot is the answer of GetRealtime: a sequence of <<key, value>> items
SnapGood == << <<ErrCode, PyInt(0)>>, <<Power, PyInt(5)>>,
               <<Current, PyStr(<<"1", ".", "5">>)>> >>
SnapText == << <<Power, PyStr(<<"x">>)>>, <<Voltage, PyStr(<<"2", ".", "5">>)>>,
               <<ErrCode, PyInt(0)>> >>
SnapError == << <<ErrCode, PyInt(-1)>>, <<Power, PyInt(5)>> >>
SnapNoCode == << <<Power, PyInt(5)>> >>

Snapshots == {SnapGood, SnapText, SnapError, SnapNoCode}

\* args.interval: a period, none, or a negative number
Intervals == {-1, 0, 1}

\* the devices argument the caller hands to Poll
Handle(address) == [address |-> address]
ArgDevices == {<<>>, <<Handle(AddrX)>>}

MaxCycles == 2
MaxSignals == 2

(***************************************************************************)
(* The run: Closer.__call__ around Poll, the signal handler, the cycles.   *)
(***************************************************************************)
VARIABLES
    args,       \* [interval, config, logfile, devices]: the arguments of Poll
    pc,         \* where the main thread is
    shutdown,   \* the threading.Event
    pipe,       \* bytes written to wd and not yet read from rd
    handlers,   \* ShutdownHandler is registered for SIGINT and SIGTERM
    fds,        \* Closer.fds
    open,       \* the descriptors and connections that are open
    closing,    \* how many entries of Closer.fds the finally clause has closed
    released,   \* how many times CloseDescriptor was called for each resource
    closeFailed,\* the resources whose close raised IOError or OSError
    config,     \* the result of LoadConfiguration
    error,      \* the exception LoadConfiguration raised
    addresses,  \* the addresses dictionary of Poll
    devices,    \* the devices variable of Poll
    at,         \* ProcessDevices: index of the device the loop is at
    failure,    \* ProcessDevices: failure
    points,     \* ProcessDevices: points
    result,     \* what the call of Poll produced: a value or a raised exception
    exit,       \* which return, break or raise ended the run
    cycles,     \* calls of ProcessDevices so far
    written,    \* the cycles whose batch was handed to write_points
    handed,     \* the batch handed to write_points in the current cycle
    seen,       \* what each device processed in the current cycle answered
    reported,   \* what ProcessDevices returned for the current cycle
    signals,    \* SIGINT/SIGTERM deliveries so far
    first,      \* [pc, cycles]: where the main thread was at the first delivery
    wake,       \* how the last Select ended
    wakeups     \* how many times Select found the pipe readable

vars == <<args, pc, shutdown, pipe, handlers, fds, open, closing, released, closeFailed,
          config, error, addresses, devices, at, failure, points, result, exit, cycles, written,
          handed, seen, reported, signals, first, wake, wakeups>>

poll == <<config, error, addresses, devices>>
cycle == <<at, failure, points, handed, seen, reported>>
hist == <<cycles, written, wake, wakeups>>
sig == <<shutdown, pipe, signals, first>>
closers == <<closing, released, closeFailed>>
res == <<fds, open, closers>>

\* what Poll registers with the Closer: lines 208, 209, 243
Resources == {"rd", "wd", "influx"}

Running == [k |-> "running"]
NoBatch == [k |-> "nobatch"]
Batch(p) == [k |-> "batch", points |-> p]
NotSignalled == [pc |-> "", cycles |-> 0]

Init ==
    /\ args \in [interval : Intervals, config : ConfigFiles, logfile : BOOLEAN,
                 devices : ArgDevices]
    /\ pc = "pipe"
    /\ shutdown = FALSE
    /\ pipe = 0
    /\ handlers = FALSE
    /\ fds = <<>>
    /\ open = {"stdout", "stderr"}
    /\ closing = 0
    /\ released = [r \in Resources |-> 0]
    /\ closeFailed = {}
    /\ config = PyNone
    /\ error = PyNone
    /\ addresses = EmptyDict
    /\ devices = args.devices
    /\ at = 0
    /\ failure = FALSE
    /\ points = <<>>
    /\ result = Running
    /\ exit = ""
    /\ cycles = 0
    /\ written = {}
    /\ handed = NoBatch
    /\ seen = <<>>
    /\ reported = "none"
    /\ signals = 0
    /\ first = NotSignalled
    /\ wake = "none"
    /\ wakeups = 0

\* a return statement of Poll, or an exception leaving it: Closer's finally is next
Leave(value, how) ==
    /\ result' = value
    /\ exit' = how
    /\ pc' = "closing"

IntervalModeLoose == args.interval >= 0

\* line 197
IntervalMode == args.interval > 0

\* line 276: not args.interval
OneShot == args.interval = 0

\* lines 196-206
CreatePipe ==
    /\ pc = "pipe"
    /\ \/ /\ open' = open \cup {"rd", "wd"}
          /\ pc' = "handlers"
          /\ UNCHANGED <<result, exit>>
       \/ \* os.pipe fails
          /\ open' = open
          /\ Leave(PyBool(FALSE), "pipe")
       \/ \* os.pipe succeeds and SetNonblocking fails
          /\ open' = open \cup {"rd", "wd"}
          /\ Leave(PyBool(FALSE), "pipe")
    /\ UNCHANGED <<args, handlers, fds, closers, poll, cycle, hist, sig>>

\* lines 100-102: descriptors 1 and 2
DropDescriptors(o) == o \ {"stdout", "stderr"}

\* lines 208-221
Register ==
    /\ pc = "handlers"
    /\ fds' = fds \o <<"rd", "wd">>
    /\ handlers' = IntervalMode
    /\ open' = IF IntervalMode /\ args.logfile THEN DropDescriptors(open) ELSE open
    /\ pc' = "isfile"
    /\ UNCHANGED <<args, closers, poll, cycle, result, exit, hist, sig>>

NotifyNothing(o, p) == p

\* lines 186-191: the byte is written unless wd is closed
Notify(o, p) == IF "wd" \in o THEN p + 1 ELSE p

SetNothing(event) == event

\* line 215: shutdown.set()
Set(event) == TRUE

\* lines 212-216, run between two steps of the main thread.  Only registered handlers
\* are modelled: without them SIGINT and SIGTERM keep their default disposition.
ShutdownHandler ==
    /\ handlers
    /\ pc # "done"
    /\ signals < MaxSignals
    /\ signals' = signals + 1
    /\ first' = IF signals = 0 THEN [pc |-> pc, cycles |-> cycles] ELSE first
    /\ shutdown' = Set(shutdown)
    /\ pipe' = Notify(open, pipe)
    /\ UNCHANGED <<args, pc, handlers, res, poll, cycle, result, exit, hist>>

\* lines 223-225
CheckConfigFile ==
    /\ pc = "isfile"
    /\ IF args.config.exists
       THEN pc' = "load" /\ UNCHANGED <<result, exit>>
       ELSE Leave(PyBool(FALSE), "nofile")
    /\ UNCHANGED <<args, handlers, res, poll, cycle, hist, sig>>

ExceptNothing(exc) == FALSE

\* line 229: except ConfigError
ExceptConfigError(exc) == exc = "ConfigError"

\* lines 227-235
Load ==
    /\ pc = "load"
    /\ \E loaded \in {LoadConfiguration(args.config.parser)} :
       IF IsRaise(loaded)
       THEN /\ IF ExceptConfigError(loaded.exc)
               THEN Leave(PyBool(FALSE), "config")
               ELSE Leave(Raise(loaded.exc), "raise")
            /\ error' = loaded
            /\ UNCHANGED config
       ELSE /\ config' = loaded
            /\ UNCHANGED error
            /\ IF Cardinality(DOMAIN loaded.devices) = 0
               THEN Leave(PyBool(FALSE), "nodevices")
               ELSE pc' = "influx" /\ UNCHANGED <<result, exit>>
    /\ UNCHANGED <<args, handlers, res, addresses, devices, cycle, hist, sig>>

\* lines 237-249: the keys of config['influx'] the constructor call reads
Connect ==
    /\ pc = "influx"
    /\ IF {"server", "port", "ssl", "verify", "database"} \subseteq DOMAIN config.influx
       THEN /\ open' = open \cup {"influx"}
            /\ fds' = Append(fds, "influx")
            /\ pc' = "resolve"
            /\ UNCHANGED <<result, exit>>
       ELSE /\ Leave(Raise("KeyError"), "raise")
            /\ UNCHANGED <<open, fds>>
    /\ UNCHANGED <<args, handlers, closers, poll, cycle, hist, sig>>

\* lines 251-253: later devices overwrite earlier ones of the same address
RECURSIVE Addresses(_, _, _)
Addresses(cfg, order, acc) ==
    IF order = <<>> THEN acc
    ELSE Addresses(cfg, Tail(order),
                   Put(acc, cfg.devices[Head(order)].address, cfg.devices[Head(order)]))

\* addresses.keys(): the keys in the order of their first insertion
RECURSIVE Keys(_, _, _)
Keys(cfg, order, acc) ==
    IF order = <<>> THEN acc
    ELSE LET a == cfg.devices[Head(order)].address IN
         Keys(cfg, Tail(order), IF a \in Range(acc) THEN acc ELSE Append(acc, a))

\* tplink.discover.LoadDevices, when it succeeds: a handle for each address
LoadDevices(keys) == [j \in DOMAIN keys |-> Handle(keys[j])]

\* lines 251-264
Resolve ==
    /\ pc = "resolve"
    /\ \E keys \in {Keys(config, config.order, <<>>)} :
           /\ addresses' = Addresses(config, config.order, EmptyDict)
           /\ \/ /\ devices' = LoadDevices(keys)
                 /\ pc' = "loop"
                 /\ UNCHANGED <<result, exit>>
              \/ \* LoadDevices raises ConnectionError: errors = 1
                 /\ devices' = devices
                 /\ IF 1 = Len(keys)
                    THEN Leave(PyBool(FALSE), "resolve")
                    ELSE pc' = "loop" /\ UNCHANGED <<result, exit>>
    /\ UNCHANGED <<args, handlers, res, config, error, cycle, hist, sig>>

IsSetNever(event) == FALSE

\* line 267: shutdown.is_set()
IsSet(event) == event

\* lines 266-271 and 288-290: the check of the flag, else the start of a cycle
LoopTop ==
    /\ pc = "loop"
    /\ IF IsSet(shutdown)
       THEN /\ Leave(PyBool(TRUE), "cancelled")
            /\ UNCHANGED <<cycle, cycles>>
       ELSE /\ cycles < MaxCycles
            /\ cycles' = cycles + 1
            /\ at' = 1
            /\ failure' = FALSE
            /\ points' = <<>>
            /\ handed' = NoBatch
            /\ seen' = <<>>
            /\ reported' = "none"
            /\ pc' = "device"
            /\ UNCHANGED <<result, exit>>
    /\ UNCHANGED <<args, handlers, res, poll, written, wake, wakeups, sig>>

Lookup(items, key) ==
    LET j == CHOOSE h \in DOMAIN items : items[h][1] = key IN items[j][2]

HasKey(items, key) == \E h \in DOMAIN items : items[h][1] = key

\* line 301
BadStatus(snapshot) ==
    ~HasKey(snapshot, ErrCode) \/ Lookup(snapshot, ErrCode) # PyInt(0)

\* lines 312-316; timeStamp is the one reading of the clock the cycle took
Point(key, entry, timeStamp, value) ==
    [measurement |-> Replace(key, ".", "_"), tags |-> entry.tags,
     time |-> timeStamp, fields |-> [value |-> value]]

\* lines 307-316: the points of one device appended to acc, or the exception raised
RECURSIVE DevicePoints(_, _, _, _)
DevicePoints(items, entry, timeStamp, acc) ==
    IF items = <<>> THEN Batch(acc)
    ELSE LET key == Head(items)[1] IN
         IF key \notin DOMAIN entry.fields
         THEN DevicePoints(Tail(items), entry, timeStamp, acc)
         ELSE Only({IF IsRaise(value) THEN value
                    ELSE DevicePoints(Tail(items), entry, timeStamp,
                                      Append(acc, Point(key, entry, timeStamp, value))) :
                    value \in {ConvertValue(Head(items)[2], entry.fields[key])}})

\* lines 276-279 after a cycle that did not return: the break, or on to the wait
AfterCycle ==
    IF OneShot THEN Leave(PyBool(TRUE), "oneshot")
    ELSE pc' = "select" /\ UNCHANGED <<result, exit>>

\* lines 292-316 for one device, and lines 273-274 when it raises ConnectionError
Device ==
    /\ pc = "device"
    /\ at <= Len(devices)
    /\ \E emeter \in {"yes", "no", "raise"}, snapshot \in Snapshots :
        /\ emeter # "yes" => snapshot = SnapGood
        /\ seen' = Append(seen, [emeter |-> emeter, snapshot |-> snapshot])
        /\ CASE emeter = "raise" ->
                \* HasEmeter or GetRealtime raises ConnectionError
                /\ AfterCycle
                /\ UNCHANGED <<at, failure, points>>
             [] emeter = "no" \/ (emeter = "yes" /\ BadStatus(snapshot)) ->
                /\ failure' = TRUE
                /\ at' = at + 1
                /\ UNCHANGED <<points, pc, result, exit>>
             [] OTHER ->
                IF devices[at].address \notin DOMAIN addresses
                THEN /\ Leave(Raise("KeyError"), "raise")
                     /\ UNCHANGED <<at, failure, points>>
                ELSE \E got \in {DevicePoints(snapshot, addresses[devices[at].address],
                                                cycles, points)} :
                        IF IsRaise(got)
                        THEN /\ Leave(got, "raise")
                             /\ UNCHANGED <<at, failure, points>>
                        ELSE /\ points' = got.points
                             /\ at' = at + 1
                             /\ UNCHANGED <<failure, pc, result, exit>>
    /\ UNCHANGED <<args, handlers, res, poll, handed, reported, hist, sig>>

\* line 325
ProcessResult(failed) == ~failed

\* lines 318-325 and 271-277
WritePoints ==
    /\ pc = "device"
    /\ at > Len(devices)
    /\ handed' = Batch(points)
    /\ written' = written \cup {cycles}
    /\ \/ \* write_points raises
          /\ Leave(Raise("InfluxDBClientError"), "raise")
          /\ UNCHANGED reported
       \/ /\ reported' = IF ProcessResult(failure) THEN "True" ELSE "False"
          /\ IF ~ProcessResult(failure)
             THEN Leave(PyBool(FALSE), "failed")
             ELSE AfterCycle
    /\ UNCHANGED <<args, handlers, res, poll, at, failure, points, seen, cycles, wake,
                   wakeups, sig>>

\* lines 279-283 and 333-353.  A handler that runs during select.select returns into
\* it and the interpreter resumes the call, so a delivery ends the wait through the
\* byte it wrote; the timeout passes only while the pipe is empty.
Select ==
    /\ pc = "select"
    /\ IF args.interval < 0
       THEN \* select.select refuses a negative timeout: ValueError
            /\ Leave(Raise("ValueError"), "raise")
            /\ UNCHANGED <<pipe, wake, wakeups>>
       ELSE IF pipe > 0
       THEN \* rd is readable: Select returns True and one byte is read
            /\ pipe' = pipe - 1
            /\ wake' = "readable"
            /\ wakeups' = wakeups + 1
            /\ pc' = "loop"
            /\ UNCHANGED <<result, exit>>
       ELSE \* the timeout passes
            /\ cycles < MaxCycles
            /\ wake' = "timeout"
            /\ pc' = "loop"
            /\ UNCHANGED <<pipe, wakeups, result, exit>>
    /\ UNCHANGED <<args, handlers, res, poll, cycle, cycles, written, shutdown, signals,
                   first>>

CloseDescriptorNot(o, fd) == o

\* lines 92-95: fd.close() or os.close(fd) went through
CloseDescriptor(o, fd) == o \ {fd}

\* what closing a descriptor or a connection does: it goes through, or it raises
CloseOutcomes == {"ok", "IOError", "OSError"}

SwallowedNothing(exc) == FALSE

\* lines 96-97: except (IOError, OSError): pass
Swallowed(exc) == exc \in {"IOError", "OSError"}

\* lines 78-84: the finally clause of Closer.__call__, one entry of fds at a time; an
\* exception CloseDescriptor lets through leaves the clause and replaces the outcome
CloseNext ==
    /\ pc = "closing"
    /\ IF closing < Len(fds)
       THEN \E outcome \in CloseOutcomes :
            /\ released' = [released EXCEPT ![fds[closing + 1]] = @ + 1]
            /\ closing' = closing + 1
            /\ IF outcome = "ok"
               THEN /\ open' = CloseDescriptor(open, fds[closing + 1])
                    /\ pc' = pc
                    /\ UNCHANGED <<closeFailed, result, exit>>
               ELSE /\ closeFailed' = closeFailed \cup {fds[closing + 1]}
                    /\ open' = open
                    /\ IF Swallowed(outcome)
                       THEN pc' = pc /\ UNCHANGED <<result, exit>>
                       ELSE /\ result' = Raise(outcome)
                            /\ exit' = "close"
                            /\ pc' = "done"
       ELSE /\ pc' = "done"
            /\ UNCHANGED <<open, closers, result, exit>>
    /\ UNCHANGED <<args, handlers, fds, poll, cycle, hist, sig>>

Next ==
    \/ CreatePipe
    \/ Register
    \/ ShutdownHandler
    \/ CheckConfigFile
    \/ Load
    \/ Connect
    \/ Resolve
    \/ LoopTop
    \/ Device
    \/ WritePoints
    \/ Select
    \/ CloseNext

Spec == Init /\ [][Next]_vars

\* The run up to the end of LoadConfiguration, for every file of CaseFiles
InitConfig ==
    /\ args \in [interval : {0}, config : CaseFiles, logfile : {FALSE}, devices : {<<>>}]
    /\ pc = "pipe"
    /\ shutdown = FALSE
    /\ pipe = 0
    /\ handlers = FALSE
    /\ fds = <<>>
    /\ open = {"stdout", "stderr"}
    /\ closing = 0
    /\ released = [r \in Resources |-> 0]
    /\ closeFailed = {}
    /\ config = PyNone
    /\ error = PyNone
    /\ addresses = EmptyDict
    /\ devices = args.devices
    /\ at = 0
    /\ failure = FALSE
    /\ points = <<>>
    /\ result = Running
    /\ exit = ""
    /\ cycles = 0
    /\ written = {}
    /\ handed = NoBatch
    /\ seen = <<>>
    /\ reported = "none"
    /\ signals = 0
    /\ first = NotSignalled
    /\ wake = "none"
    /\ wakeups = 0

NextConfig ==
    \/ CreatePipe
    \/ Register
    \/ CheckConfigFile
    \/ Load
    \/ CloseNext

SpecConfig == InitConfig /\ [][NextConfig]_vars

(***************************************************************************)
(* Properties of the run.                                                  *)
(***************************************************************************)
\* Poll has returned or raised
Returned == pc \in {"closing", "done"}

\* the run got past startup: pipe, configuration, sink and devices
StartupDone ==
    \/ pc \in {"loop", "device", "select"}
    \/ exit \in {"cancelled", "failed", "oneshot"}
    \/ cycles > 0

\* the current cycle is over: ProcessDevices returned or raised
CycleEnded == cycles > 0 /\ pc # "device"

\* device j of the current cycle failed: no metering, a raised ConnectionError,
\* or a snapshot whose status code is missing or not zero
Failed(j) == seen[j].emeter # "yes" \/ BadStatus(seen[j].snapshot)

Known(j) == devices[j].address \in DOMAIN addresses

Entry(j) == addresses[devices[j].address]

\* the batch has a point of device j for key
HasPoint(batch, j, key) ==
    \E h \in DOMAIN batch :
        batch[h].tags = Entry(j).tags /\ batch[h].measurement = Replace(key, ".", "_")

HasPointOf(batch, j) == \E h \in DOMAIN batch : batch[h].tags = Entry(j).tags

\* the keys of device j's snapshot that its registry declares
Declared(j) ==
    {seen[j].snapshot[h][1] : h \in DOMAIN seen[j].snapshot} \cap DOMAIN Entry(j).fields

\* the conversion of device j's value for key fails
Inconvertible(j, key) ==
    IsRaise(ConvertValue(Lookup(seen[j].snapshot, key), Entry(j).fields[key]))

\* C1: in interval mode a cycle with failed devices does not end the run; only a
\* termination signal does.
C1_DeviceFailureKeepsRunning == (args.interval > 0 /\ exit = "failed") => signals > 0

\* C2: in interval mode a failure of the sink's batch write does not end the run.
C2_SinkFailureKeepsRunning ==
    args.interval > 0 => result # Raise("InfluxDBClientError")

\* C3: whatever devices fail in a cycle (the values of the others being convertible),
\* the batch handed to the sink holds the points of exactly the devices that did not
\* fail, and the cycle reports a failure iff some device failed.
C3_BatchOfHealthyDevices ==
    (/\ CycleEnded
     /\ \A j \in DOMAIN devices : Known(j)
     /\ \A j \in DOMAIN seen : Failed(j) \/ \A key \in Declared(j) : ~Inconvertible(j, key))
    =>
        /\ handed.k = "batch"
        /\ Len(seen) = Len(devices)
        /\ \A j \in DOMAIN seen :
            IF Failed(j) THEN ~HasPointOf(handed.points, j)
            ELSE \A key \in Declared(j) : HasPoint(handed.points, j, key)
        /\ (reported = "False") = (\E j \in DOMAIN seen : Failed(j))

\* C4: when the conversion of one declared field fails, only that point is dropped:
\* the batch is handed to the sink with the device's other points, the device is not
\* marked failed and the run does not end with ConversionFailure.
C4_ConversionFailureDropsOnePoint ==
    (CycleEnded /\ \A j \in DOMAIN devices : Known(j)) =>
        \A j \in DOMAIN seen :
            (~Failed(j) /\ \E key \in Declared(j) : Inconvertible(j, key)) =>
                /\ result # Raise("ConversionFailure")
                /\ handed.k = "batch"
                /\ \A key \in Declared(j) :
                    ~Inconvertible(j, key) => HasPoint(handed.points, j, key)

\* C5: a cycle starts only after the batch of every earlier cycle was handed to the
\* sink.
C5_CycleAfterHandOver == \A n \in 1..(cycles - 1) : n \in written

\* C6 as stated: a run that completed startup has run a cycle when it returns.
C6_AlwaysOneCycle == (Returned /\ StartupDone) => cycles >= 1

\* the first signal came before any cycle had started
CancelledFirst == signals > 0 /\ first.cycles = 0

\* C6 amended: a run that completed startup returns without a cycle exactly when a
\* termination signal was delivered before the loop first checked the flag; it then
\* returns success.
C6_OneCycleUnlessCancelledFirst ==
    (Returned /\ StartupDone) =>
        /\ (cycles = 0) = CancelledFirst
        /\ cycles = 0 => (exit = "cancelled" /\ result = PyBool(TRUE))

C6_Witness ==
    pc = "done" /\ StartupDone /\ cycles = 0 /\ first.pc = "resolve"

\* C7: with no interval a run past startup runs exactly one cycle and returns, and
\* the handler is never registered.
C7_OneShotOneCycle ==
    args.interval = 0 =>
        /\ ~handlers
        /\ signals = 0
        /\ cycles <= 1
        /\ (Returned /\ StartupDone) => cycles = 1

C7_Witness ==
    pc = "done" /\ args.interval = 0 /\ exit = "oneshot" /\ cycles = 1 /\ ~handlers

\* C8: once a signal was delivered, the idle wait ends by the pipe being readable, not
\* by the timeout; the loop then exits and starts no cycle.
C8_SignalEndsWait ==
    [][/\ (pc = "select" /\ shutdown /\ pc' # "select") =>
            (wake' = "readable" /\ pc' = "loop" /\ wakeups' = wakeups + 1)
       /\ (pc = "loop" /\ shutdown /\ pc' # "loop") =>
            (exit' = "cancelled" /\ pc' = "closing")
       /\ shutdown => cycles' = cycles]_vars

C8_Witness ==
    /\ first.pc = "select"
    /\ wake = "readable"
    /\ exit = "cancelled"
    /\ cycles = first.cycles
    /\ pc = "done"

\* C9: a signal delivered during a cycle leaves the cycle to run to its end, the batch
\* handed to the sink, before the loop exits on the flag.
C9_CycleCompletesAfterSignal ==
    (exit = "cancelled" /\ first.pc = "device") => first.cycles \in written

\* C10: any number of deliveries wakes the loop at most once and no cycle starts after
\* the first of them.
C10_SignalsCoalesce ==
    /\ wakeups <= 1
    /\ signals >= 1 => cycles = first.cycles

C10_Witness ==
    /\ signals >= 2
    /\ first.pc = "select"
    /\ wakeups = 1
    /\ exit = "cancelled"
    /\ pc = "done"

\* the resources the Closer holds, each of them once
Registered == {fds[i] : i \in 1..Len(fds)}

\* C11: when the run is over, whichever return or exception ended it, every resource
\* registered with the Closer has been handed to CloseDescriptor exactly once, no
\* other resource has, and a registered resource whose close went through is closed.
C11_RegisteredReleasedOnce ==
    pc = "done" =>
        /\ Cardinality(Registered) = Len(fds)
        /\ \A r \in Resources : released[r] = (IF r \in Registered THEN 1 ELSE 0)
        /\ \A r \in Registered \ closeFailed : r \notin open

\* an exception left Poll with both pipe ends and the sink connection registered
C11_Witness ==
    /\ pc = "done"
    /\ exit = "raise"
    /\ Registered = Resources
    /\ closeFailed = {}
    /\ open \cap Resources = {}

\* C12: when the run is over, whichever return or exception ended it, no descriptor
\* or connection the run opened is still open (no close having failed); this
\* includes the run that created the pipe and failed to make an end non-blocking.
C12_EverythingOpenedReleased ==
    (pc = "done" /\ closeFailed = {}) => open \cap Resources = {}

\* C13: while the finally clause of the Closer runs, a close that raises changes
\* neither the value nor the exception the run produces, and the clause ends only
\* after every registered resource was handed to CloseDescriptor, each resource
\* whose own close went through being closed.
C13_ReleaseFailureSwallowed ==
    [][pc = "closing" =>
          /\ result' = result
          /\ exit' = exit
          /\ pc' = "done" =>
                /\ closing' = Len(fds)
                /\ \A r \in Registered : released'[r] = 1
                /\ \A r \in Registered \ closeFailed' : r \notin open']_vars

\* closing the read end raised; the write end and the sink connection were closed
\* all the same and the run's value is the one Poll returned
C13_Witness ==
    /\ pc = "done"
    /\ closeFailed = {"rd"}
    /\ Registered = Resources
    /\ open \cap Resources = {"rd"}
    /\ result = PyBool(TRUE)

\* LoadConfiguration raised a ConfigError
ConfigFailed == IsRaise(error) /\ error.exc = "ConfigError"

\* C14: a run whose configuration file fails validation with a ConfigError never
\* creates the sink connection, never resolves or fetches a device, never runs a
\* cycle and never hands a batch to the sink, and what it returns is False.
C14_ConfigErrorEndsRunBeforeStartup ==
    ConfigFailed =>
        /\ pc \notin {"influx", "resolve", "loop", "device", "select"}
        /\ "influx" \notin open /\ "influx" \notin Registered
        /\ addresses = EmptyDict /\ devices = args.devices
        /\ cycles = 0 /\ seen = <<>> /\ written = {} /\ handed = NoBatch
        /\ Returned => result = PyBool(FALSE)

\* the run loaded a file that names a device without a section and returned
C14_Witness ==
    /\ ConfigFailed
    /\ pc = "done"
    /\ exit = "config"
    /\ Registered = {"rd", "wd"}

(***************************************************************************)
(* The checks of LoadConfiguration, each stated on the file alone.         *)
(***************************************************************************)
\* LoadConfiguration has run
Validated == error # PyNone \/ config # PyNone

\* the file LoadConfiguration read
TheFile == args.config.parser

\* the device list of the file
Listed(parser) ==
    IF HasOption(parser, Influx, "devices") THEN SplitWs(Get(parser, Influx, "devices"))
    ELSE <<>>

Count(text, ch) == Cardinality({j \in DOMAIN text : text[j] = ch})

Before(text, ch) == SubSeq(text, 1, (CHOOSE j \in DOMAIN text : text[j] = ch) - 1)

After(text, ch) == SubSeq(text, (CHOOSE j \in DOMAIN text : text[j] = ch) + 1, Len(text))

\* a tag is key=value
TagOk(token) == Count(token, "=") = 1

\* a declaration is name or name:hint; a token that is not name:hint is all name
NameOf(token) == IF Count(token, ":") = 1 THEN Before(token, ":") ELSE token

HintOf(token) == IF Count(token, ":") = 1 THEN After(token, ":") ELSE None

\* a field set is a section with a non-empty option fields of well-typed declarations
SetOk(parser, set) ==
    /\ HasOption(parser, set, "fields")
    /\ Get(parser, set, "fields") # <<>>
    /\ \A token \in Range(SplitWs(Get(parser, set, "fields"))) :
          HintOf(token) \in {None, HintInt, HintFloat, HintString}

Stage(stage, device, option) == [stage |-> stage, device |-> device, option |-> option]

\* the checks in the order of the validation algorithm: five on the backend section,
\* then eight for each listed device
StageCount(parser) == 5 + 8 * Len(Listed(parser))

StageAt(parser, n) ==
    IF n = 1 THEN Stage("backend", <<>>, "")
    ELSE IF n <= 4 THEN Stage("required", Influx, influxRequiredFields[n - 1])
    ELSE IF n = 5 THEN Stage("list", <<>>, "")
    ELSE LET device == Listed(parser)[((n - 6) \div 8) + 1]
             j      == (n - 6) % 8
         IN  IF j = 0 THEN Stage("section", device, "")
             ELSE IF j <= 4 THEN Stage("required", device, deviceRequiredFields[j])
             ELSE IF j = 5 THEN Stage("address", device, "")
             ELSE IF j = 6 THEN Stage("tags", device, "")
             ELSE Stage("fieldsets", device, "")

\* the check fails on the file, whatever the other checks say
Fails(parser, st) ==
    CASE st.stage = "backend"   -> ~HasSection(parser, Influx)
      [] st.stage = "required"  -> /\ HasSection(parser, st.device)
                                   /\ ~HasOption(parser, st.device, st.option)
      [] st.stage = "list"      -> /\ HasOption(parser, Influx, "devices")
                                   /\ Listed(parser) = <<>>
      [] st.stage = "section"   -> ~HasSection(parser, st.device)
      [] st.stage = "address"   -> /\ HasOption(parser, st.device, "address")
                                   /\ ~IsValidIPv4(Get(parser, st.device, "address"))
      [] st.stage = "tags"      -> /\ HasOption(parser, st.device, "tags")
                                   /\ \E token \in Range(SplitWs(Get(parser, st.device,
                                                                     "tags"))) :
                                         ~TagOk(token)
      [] st.stage = "fieldsets" -> /\ HasOption(parser, st.device, "fields")
                                   /\ \E set \in Range(SplitWs(Get(parser, st.device,
                                                                   "fields"))) :
                                         ~SetOk(parser, set)

Failing(parser) == {n \in 1..StageCount(parser) : Fails(parser, StageAt(parser, n))}

\* the earliest failing check (0: every check passes)
FirstFailing(parser) ==
    IF Failing(parser) = {} THEN 0
    ELSE CHOOSE n \in Failing(parser) : \A m \in Failing(parser) : n <= m

\* the check a ConfigError reports
StageOf(e) ==
    CASE e.check = "nobackend" -> Stage("backend", <<>>, "")
      [] e.check = "required"  -> Stage("required", e.device, e.option)
      [] e.check = "nodevices" -> Stage("list", <<>>, "")
      [] e.check = "nosection" -> Stage("section", e.device, "")
      [] e.check = "address"   -> Stage("address", e.device, "")
      [] e.check = "tag"       -> Stage("tags", e.device, "")
      [] OTHER                 -> Stage("fieldsets", e.device, "")

\* the listed names that have no section
Sectionless(parser) == {n \in Range(Listed(parser)) : ~HasSection(parser, n)}

\* converting an option of [influx] raises (lines 120-123)
OptionRaises(parser) ==
    \E i \in DOMAIN allowedInfluxFields :
        /\ HasOption(parser, Influx, allowedInfluxFields[i])
        /\ IsRaise(ConvertValue(PyStr(Get(parser, Influx, allowedInfluxFields[i])), None))

\* the registry of a configuration that passed validation answers for every listed name
RegistryComplete ==
    config.k = "config" =>
        /\ config.names # <<>>
        /\ \A i \in DOMAIN config.names :
              /\ config.names[i] \in DOMAIN config.devices
              /\ config.devices[config.names[i]].k = "device"

C16_EarliestFailingCheckReported ==
    Validated =>
        \A n \in {FirstFailing(TheFile)} :
            /\ n # 0 => IsRaise(error)
            /\ ConfigFailed => (n # 0 /\ StageOf(error) = StageAt(TheFile, n))
            /\ config.k = "config" => n = 0

\* a file with several failing checks: the tags of the first listed device b and,
\* later in the order, the address of a; the ConfigError is the one about b's tags
C16_Witness ==
    /\ pc = "done"
    /\ ConfigFailed
    /\ error.check = "tag" /\ error.device = DevB
    /\ Listed(TheFile) = <<DevB, DevA>>
    /\ Fails(TheFile, Stage("address", DevA, ""))
    /\ Cardinality(Failing(TheFile)) >= 2

RECURSIVE Flatten(_)
Flatten(seqs) == IF seqs = <<>> THEN <<>> ELSE Head(seqs) \o Flatten(Tail(seqs))

\* the declarations of a device: those of its field sets, in list order, each set's
\* tokens in their order
Decls(parser, device) ==
    LET sets == SplitWs(Get(parser, device, "fields"))
    IN  Flatten([i \in DOMAIN sets |-> SplitWs(Get(parser, sets[i], "fields"))])

\* the last declaration of the name
LastOf(decls, name) ==
    CHOOSE j \in DOMAIN decls :
        /\ NameOf(decls[j]) = name
        /\ \A h \in (j + 1)..Len(decls) : NameOf(decls[h]) # name

\* C17: in a configuration that passed validation, the fields mapping of a device
\* has exactly the names its field sets declare, each name with the hint of its last
\* declaration (field sets in list order, then tokens in order), whatever hints the
\* earlier declarations of that name or the declarations of other names carry.
C17_LastDeclarationWins ==
    config.k = "config" =>
        \A device \in DOMAIN config.devices :
            \A decls \in {Decls(TheFile, device)} :
                /\ DOMAIN config.devices[device].fields =
                      {NameOf(decls[j]) : j \in DOMAIN decls}
                /\ \A name \in DOMAIN config.devices[device].fields :
                      config.devices[device].fields[name] =
                         HintOf(decls[LastOf(decls, name)])

\* [a] fields = t s: pwr is declared float in [t], then int in [s]; cur is declared
\* string, then without hint
C17_Witness ==
    /\ config.k = "config"
    /\ DevA \in DOMAIN config.devices
    /\ Get(TheFile, DevA, "fields") = SetT \o <<" ">> \o FieldSet
    /\ config.devices[DevA].fields[Power] = HintInt
    /\ config.devices[DevA].fields[Current] = None
    /\ config.devices[DevA].fields[Voltage] = HintFloat

\* C18: ConvertValue without a hint raises nothing: LoadConfiguration, which hands
\* every backend option of the file to it, ends with nothing but a ConfigError or a
\* configuration, and each converted option is a number, a boolean or the trimmed
\* text of the option.
C18_InferenceNeverFails ==
    Validated =>
        /\ IsRaise(error) => error.exc = "ConfigError"
        /\ config.k = "config" =>
              \A o \in DOMAIN config.influx :
                  \/ config.influx[o].k \in {"int", "float", "bool"}
                  \/ config.influx[o] = PyStr(Strip(Get(TheFile, Influx, o)))

\* C19: a run whose configuration passed validation creates the sink connection,
\* whichever optional backend options (port, ssl, verify) the file leaves out: once
\* Poll is past the constructor call the connection is registered with the Closer,
\* and no exception has ended the run before its first cycle.
C19_OptionalBackendFields ==
    (config.k = "config" /\ exit # "nodevices" /\ pc # "influx") =>
        /\ "influx" \in Registered
        /\ (Returned /\ cycles = 0) => ~IsRaise(result)

\* C20: the devices of the run are set by the one resolution at startup and never
\* again, and whenever the run is in its cycles, after a failed resolution too,
\* every device handle it processes has an address that is a key of the registry of
\* configured addresses.
C20_ResolvedOnceAndConfigured ==
    [][/\ pc # "resolve" => devices' = devices
       /\ pc' \in {"loop", "device", "select"} =>
             \A i \in DOMAIN devices' : devices'[i].address \in DOMAIN addresses']_vars

====
